---- MODULE Spec2Model ----
(***************************************************************************)
(* A model of pyspatial's raster query engine (src/pyspatial/raster.py):   *)
(* the coordinate frame of RasterBase, the scan conversion of rasterize,   *)
(* the tile store of RasterDataset (raster_arrays) and the generator       *)
(* RasterDataset.query, whose positions are the values of pc.              *)
(*                                                                         *)
(* Geometry is integer valued.  A shape is an axis-aligned rectangle with  *)
(* integer corners and no interior ring, [x0, y0, x1, y1] with x0 <= x1    *)
(* and y0 <= y1, in the coordinates of its layer's projection.  A weight   *)
(* is the exact fraction [num, den].                                       *)
(***************************************************************************)
EXTENDS Integers, Sequences, FiniteSets, TLC

(***************************************************************************)
(* The raster of the modelled dataset: RasterBase's attributes.            *)
(***************************************************************************)
xsize == 4
ysize == 2
min_lon == 0
max_lat == 8
lon_px_size == 2
lat_px_size == -2
grid_size == 2

(* Bounds of the model: the features of a layer, the pixels a shape given to
   rasterize alone is wide or high (beyond one), the pixels of one
   get_values_for_pixels call, the largest pixel coordinate a grid key is
   computed for, and how far from the raster's origin, in either direction,
   the points converted to pixels lie. *)
MaxShapes == 2
MaxSide == 4
MaxPixels == 2
MaxGridPx == 6
MaxOff == 5

(***************************************************************************)
(* Arithmetic helpers.                                                     *)
(***************************************************************************)
Min2(a, b) == IF a <= b THEN a ELSE b
Max2(a, b) == IF a >= b THEN a ELSE b

(* C floor(a / b) for b # 0. *)
FloorDiv(a, b) == IF b > 0 THEN a \div b ELSE (-a) \div (-b)

(* ceil(a / b) for a >= 0, b > 0. *)
CeilDiv(a, b) == (a + b - 1) \div b

RECURSIVE SeqSum(_)
SeqSum(s) == IF s = <<>> THEN 0 ELSE Head(s) + SeqSum(Tail(s))

(* The subsequence of the finite integer set S in ascending order. *)
RECURSIVE SortedSeq(_)
SortedSeq(S) ==
    IF S = {} THEN <<>>
    ELSE LET m == CHOOSE x \in S : \A y \in S : x <= y
         IN  <<m>> \o SortedSeq(S \ {m})

Range(s) == {s[k] : k \in DOMAIN s}

(***************************************************************************)
(* Coordinate frame (RasterBase).                                          *)
(***************************************************************************)
Rect(x0, y0, x1, y1) == [x0 |-> x0, y0 |-> y0, x1 |-> x1, y1 |-> y1]

(* Mutant: the quotients are cut towards zero, as int() of the unrounded
   quotient would. *)
TruncDiv(a, b) ==
    LET abs(v) == IF v >= 0 THEN v ELSE -v
        q == abs(a) \div abs(b)
    IN  IF (a >= 0) = (b > 0) THEN q ELSE -q

slib_to_pixels_trunc(lon, lat, minLon, maxLat, lonPxSz, latPxSz) ==
    <<TruncDiv(lon - minLon, lonPxSz), TruncDiv(lat - maxLat, latPxSz)>>

(* spatiallib.to_pixels: floor of the offset from the origin in pixels. *)
slib_to_pixels(lon, lat, minLon, maxLat, lonPxSz, latPxSz) ==
    <<FloorDiv(lon - minLon, lonPxSz), FloorDiv(lat - maxLat, latPxSz)>>

(* RasterBase._to_pixels: int() of the two floored values, which changes
   neither. *)
_to_pixels(lon, lat) ==
    slib_to_pixels(lon, lat, min_lon, max_lat, lon_px_size, lat_px_size)

(* RasterBase.shape_to_pixel: every vertex through _to_pixels; the rectangle
   is kept by the bounds of its four mapped corners. *)
shape_to_pixel(shp) ==
    LET a == _to_pixels(shp.x0, shp.y0)
        b == _to_pixels(shp.x1, shp.y1)
    IN  Rect(Min2(a[1], b[1]), Min2(a[2], b[2]),
             Max2(a[1], b[1]), Max2(a[2], b[2]))

(* RasterBase.get_extent: (xmin, xmax, ymin, ymax) *)
get_extent ==
    LET ymax == max_lat
        xmin == min_lon
        ymin == ymax + lat_px_size * ysize
        xmax == xmin + lon_px_size * xsize
    IN  <<xmin, xmax, ymin, ymax>>

(* RasterBase.bbox *)
bbox == LET e == get_extent IN Rect(e[1], e[3], e[2], e[4])

(***************************************************************************)
(* Projections.  A layer is [proj, feats], feats a sequence of [id, shp].  *)
(* The dataset's projection is "native"; coordinates of the projection     *)
(* "other" are those of "native" shifted by (OtherDx, OtherDy).            *)
(***************************************************************************)
DatasetProj == "native"
OtherShift == <<100, 50>>

(* Reprojection of one point between the two projections. *)
Reproject(x, y, from, to) ==
    IF from = to THEN <<x, y>>
    ELSE IF to = "native" THEN <<x - OtherShift[1], y - OtherShift[2]>>
    ELSE <<x + OtherShift[1], y + OtherShift[2]>>

TransformShape(shp, from, to) ==
    LET a == Reproject(shp.x0, shp.y0, from, to)
        b == Reproject(shp.x1, shp.y1, from, to)
    IN  Rect(a[1], a[2], b[1], b[2])

(* VectorLayer.transform(proj) *)
transform(layer, proj) ==
    [proj  |-> proj,
     feats |-> [k \in DOMAIN layer.feats |->
                  [id  |-> layer.feats[k].id,
                   shp |-> TransformShape(layer.feats[k].shp, layer.proj, proj)]]]

(* VectorLayer.ids *)
LayerIds(layer) == [k \in DOMAIN layer.feats |-> layer.feats[k].id]

(***************************************************************************)
(* rasterize (raster.py 58-134).  shp is a rectangle in pixel coordinates. *)
(* The result is the array as numpy holds it: a sequence of rows (y), each *)
(* a sequence of cells (x); a cell is the fraction [num, den].             *)
(***************************************************************************)
W(num, den) == [num |-> num, den |-> den]

(* np.zeros([rows, cols]) + v *)
Full(rows, cols, v) == [r \in 1..rows |-> [c \in 1..cols |-> v]]

BoolInt(b) == IF b THEN 1 ELSE 0

(* The effective scale factor (raster.py 110-111). *)
EffectiveScale(shp, scale_factor) ==
    IF ((shp.x1 - shp.x0 + 1) + (shp.y1 - shp.y0 + 1)) <= 2 * scale_factor
    THEN 1 ELSE scale_factor

(* The image after ImageDraw.polygon(ext_pg, outline=ext_outline,
   fill=ext_fill) on a width x height image of zeros, for the rectangle with
   corners (0, 0) and (width - 1, height - 1): the fill is painted with the
   ink ext_fill, then the outline (the border pixels) with the ink
   ext_outline; both inks are integers, so both are painted. *)
ImagePixel(X, Y, width, height, ext_outline, ext_fill) ==
    IF X \in {0, width - 1} \/ Y \in {0, height - 1}
    THEN BoolInt(ext_outline) ELSE BoolInt(ext_fill)

(* skimage's downscale_local_mean(img, (sf, sf)): the image is padded with
   zeros to a multiple of sf and every sf x sf block is averaged. *)
downscale_local_mean(width, height, sf, ext_outline, ext_fill) ==
    [r \in 1..CeilDiv(height, sf) |->
       [c \in 1..CeilDiv(width, sf) |->
          W(SeqSum([k \in 1..(sf * sf) |->
                 LET X == sf * (c - 1) + ((k - 1) % sf)
                     Y == sf * (r - 1) + ((k - 1) \div sf)
                 IN  IF X < width /\ Y < height
                     THEN ImagePixel(X, Y, width, height, ext_outline, ext_fill)
                     ELSE 0]),
            sf * sf)]]

(* Mutant: the lines count one cell too few. *)
rasterize_line_off_by_one(shp, ext_outline, ext_fill, scale_factor) ==
    LET minx == shp.x0
        miny == shp.y0
        maxx == shp.x1
        maxy == shp.y1
    IN  IF minx = maxx /\ miny = maxy THEN Full(1, 1, W(1, 1))
        ELSE IF maxy > miny /\ minx = maxx
             THEN Full(maxy - miny, 1, W(1, maxy - miny))
        ELSE IF maxy = miny /\ minx < maxx
             THEN Full(1, maxx - minx, W(1, maxx - minx))
        ELSE LET sf == EffectiveScale(shp, scale_factor)
                 width  == sf * (maxx - minx) + 1
                 height == sf * (maxy - miny) + 1
             IN  downscale_local_mean(width, height, sf, ext_outline, ext_fill)

(* Mutant: no fast path for a shape within one pixel. *)
rasterize_no_single_pixel(shp, ext_outline, ext_fill, scale_factor) ==
    LET minx == shp.x0
        miny == shp.y0
        maxx == shp.x1
        maxy == shp.y1
    IN  IF maxy > miny /\ minx = maxx
        THEN Full(maxy - miny + 1, 1, W(1, maxy - miny + 1))
        ELSE IF maxy = miny /\ minx < maxx
             THEN Full(1, maxx - minx + 1, W(1, maxx - minx + 1))
        ELSE LET sf == EffectiveScale(shp, scale_factor)
                 width  == sf * (maxx - minx) + 1
                 height == sf * (maxy - miny) + 1
             IN  downscale_local_mean(width, height, sf, ext_outline, ext_fill)

rasterize(shp, ext_outline, ext_fill, scale_factor) ==
    LET minx == shp.x0
        miny == shp.y0
        maxx == shp.x1
        maxy == shp.y1
    IN  IF minx = maxx /\ miny = maxy THEN Full(1, 1, W(1, 1))
        ELSE IF maxy > miny /\ minx = maxx
             THEN Full(maxy - miny + 1, 1, W(1, maxy - miny + 1))
        ELSE IF maxy = miny /\ minx < maxx
             THEN Full(1, maxx - minx + 1, W(1, maxx - minx + 1))
        ELSE LET sf == EffectiveScale(shp, scale_factor)
                 \* scale(shp, xfact=sf, yfact=sf) about the centre: the
                 \* bounds become sf times as wide and as high
                 width  == sf * (maxx - minx) + 1
                 height == sf * (maxy - miny) + 1
             IN  downscale_local_mean(width, height, sf, ext_outline, ext_fill)

(* numpy's .T of a 2-D array *)
Transpose(a) ==
    IF a = <<>> THEN <<>>
    ELSE [c \in 1..Len(a[1]) |-> [r \in 1..Len(a) |-> a[r][c]]]

(* np.argwhere(mask > 0): the index pairs (0-based) in row-major order. *)
RECURSIVE ArgwhereFrom(_, _)
ArgwhereFrom(mask, k) ==
    IF mask = <<>> \/ k > Len(mask) * Len(mask[1]) THEN <<>>
    ELSE LET r == (k - 1) \div Len(mask[1])
             c == (k - 1) % Len(mask[1])
         IN  (IF mask[r + 1][c + 1].num > 0 THEN << <<r, c>> >> ELSE <<>>)
             \o ArgwhereFrom(mask, k + 1)

argwhere(mask) == ArgwhereFrom(mask, 1)

(***************************************************************************)
(* The vector layer operations the query uses (pyspatial.vector).          *)
(***************************************************************************)
(* a lies within b: no point of a is outside b. *)
Within(a, b) == b.x0 <= a.x0 /\ a.x1 <= b.x1 /\ b.y0 <= a.y0 /\ a.y1 <= b.y1

(* a and b share a point. *)
Intersects(a, b) == a.x0 <= b.x1 /\ b.x0 <= a.x1 /\ a.y0 <= b.y1 /\ b.y0 <= a.y1

FeatWithin(f, box) == Within(f.shp, box)
FeatIntersects(f, box) == Intersects(f.shp, box)

(* VectorLayer.within(shp): the features within shp, in the layer's order. *)
within(layer, box) ==
    [proj  |-> layer.proj,
     feats |-> SelectSeq(layer.feats, LAMBDA f : FeatWithin(f, box))]

(* VectorLayer.intersects(shp): the features that intersect shp. *)
intersects(layer, box) ==
    [proj  |-> layer.proj,
     feats |-> SelectSeq(layer.feats, LAMBDA f : FeatIntersects(f, box))]

(* The order of VectorLayer.sort: by upper left corner, west to east and
   then north to south. *)
SortBefore(f, g) ==
    \/ f.shp.x0 < g.shp.x0
    \/ f.shp.x0 = g.shp.x0 /\ f.shp.y1 > g.shp.y1

(* VectorLayer.sort(): stable. *)
RECURSIVE SortFeats(_)
SortFeats(feats) ==
    IF feats = <<>> THEN <<>>
    ELSE LET k == CHOOSE k \in DOMAIN feats :
                    /\ \A j \in DOMAIN feats : ~SortBefore(feats[j], feats[k])
                    /\ \A j \in 1..(k - 1) : SortBefore(feats[k], feats[j])
             rest == [j \in 1..(Len(feats) - 1) |->
                        IF j < k THEN feats[j] ELSE feats[j + 1]]
         IN  <<feats[k]>> \o SortFeats(rest)

sort(layer) == [proj |-> layer.proj, feats |-> SortFeats(layer.feats)]

(* pandas Index.difference(other): the elements of ids not in other, as a
   sorted index ("the sorted set difference of two Index objects"). *)
difference(ids, other) == SortedSeq(Range(ids) \ Range(other))

(* pandas Index.append *)
append(a, b) == a \o b

(***************************************************************************)
(* Tiles.  A tile is addressed by the pixel coordinates of its upper left  *)
(* corner; its file is path + "%d_%d.tif" % key.  A file name is the       *)
(* sequence of its characters.                                             *)
(***************************************************************************)
TileKeys ==
    {<<x, y>> : x \in {grid_size * k : k \in 0..((xsize - 1) \div grid_size)},
                y \in {grid_size * k : k \in 0..((ysize - 1) \div grid_size)}}

DigitChars == <<"0", "1", "2", "3", "4", "5", "6", "7", "8", "9">>

IsDigit(c) == \E d \in 1..10 : DigitChars[d] = c
DigitVal(c) == (CHOOSE d \in 1..10 : DigitChars[d] = c) - 1

(* "%d" % n *)
RECURSIVE Decimal(_)
Decimal(n) ==
    IF n < 0 THEN <<"-">> \o Decimal(-n)
    ELSE IF n < 10 THEN <<DigitChars[n + 1]>>
    ELSE Decimal(n \div 10) \o <<DigitChars[(n % 10) + 1]>>

(* int(s) of a string of digits *)
RECURSIVE ParseInt(_)
ParseInt(s) ==
    IF s = <<>> THEN 0
    ELSE 10 * ParseInt(SubSeq(s, 1, Len(s) - 1)) + DigitVal(s[Len(s)])

Path == <<"d", "/">>

(* self.path + "%d_%d.tif" % key *)
TileFilename(key) ==
    Path \o Decimal(key[1]) \o <<"_">> \o Decimal(key[2]) \o <<".", "t", "i", "f">>

(* re.compile('([0-9]+)_([0-9]+)\.tif').search(filename): the leftmost match
   as <<a, u, b>> (group 1 is filename[a..u-1], group 2 is
   filename[u+1..b]), or <<>> for None. *)
IsMatch(fn, a, u, b) ==
    /\ a < u /\ u < b /\ b + 4 <= Len(fn)
    /\ fn[u] = "_"
    /\ \A k \in a..(u - 1) : IsDigit(fn[k])
    /\ \A k \in (u + 1)..b : IsDigit(fn[k])
    /\ SubSeq(fn, b + 1, b + 4) = <<".", "t", "i", "f">>
    \* the second group is greedy
    /\ ~IsDigit(fn[b + 1])

tile_regex_search(fn) ==
    LET digits == {k \in 1..Len(fn) : IsDigit(fn[k])}
        M == {m \in digits \X {k \in 1..Len(fn) : fn[k] = "_"} \X digits :
                 IsMatch(fn, m[1], m[2], m[3])}
    IN  IF M = {} THEN <<>>
        ELSE CHOOSE m \in M : \A n \in M : m[1] <= n[1]

(* RasterDataset._key_from_tile_filename: [err, key]; r.groups() raises
   AttributeError when the search found nothing (r is None). *)
_key_from_tile_filename(fn) ==
    LET r == tile_regex_search(fn)
    IN  IF r = <<>> THEN [err |-> "AttributeError", key |-> <<>>]
        ELSE [err |-> "",
              key |-> <<ParseInt(SubSeq(fn, r[1], r[2] - 1)),
                        ParseInt(SubSeq(fn, r[2] + 1, r[3]))>>]

(* The footprint of a tile in the dataset's projection. *)
TileFootprint(key) ==
    Rect(min_lon + lon_px_size * key[1],
         max_lat + lat_px_size * Min2(key[2] + grid_size, ysize),
         min_lon + lon_px_size * Min2(key[1] + grid_size, xsize),
         max_lat + lat_px_size * key[2])

(* The catalog's index: tile file name -> footprint, as a set of entries. *)
Index == {[file |-> TileFilename(key), f |-> TileFootprint(key)] : key \in TileKeys}

(* The value the raster holds at pixel (x, y). *)
RasterValue(x, y) == x + xsize * y

InRaster(x, y) == x \in 0..(xsize - 1) /\ y \in 0..(ysize - 1)

(* Mutant: the number of the tile in each direction, not its first pixel. *)
grid_for_pixel_index(gs, x_px, y_px) == <<FloorDiv(x_px, gs), FloorDiv(y_px, gs)>>

(* spatiallib.grid_for_pixel *)
grid_for_pixel(gs, x_px, y_px) == <<gs * FloorDiv(x_px, gs), gs * FloorDiv(y_px, gs)>>

(* RasterDataset._get_grid_for_pixel *)
_get_grid_for_pixel(px) == grid_for_pixel(grid_size, px[1], px[2])

(***************************************************************************)
(* The state.                                                              *)
(*   dataset        how the RasterDataset was constructed: tiled (a        *)
(*                  grid_size was given) and index (an index was given),   *)
(*                  and the tiles whose files cannot be read               *)
(*   raster_arrays  the keys of the tiles held; {Whole} for an untiled     *)
(*                  dataset, which holds the whole raster                  *)
(*   gens           the generators query() has returned, by caller slot    *)
(*   px_test        what test_raster_band_should_convert_coordinates_-     *)
(*                  single_shape computed last                             *)
(*   rz, lk, gp, tp the last call, with its result, of rasterize, of       *)
(*                  get_values_for_pixels, of _get_grid_for_pixel with     *)
(*                  the offset in the tile, and of _to_pixels, by a        *)
(*                  caller that calls them alone                           *)
(***************************************************************************)
VARIABLES dataset, raster_arrays, gens, px_test, rz, lk, gp, tp

vars == <<dataset, raster_arrays, gens, px_test, rz, lk, gp, tp>>

Whole == <<-1, -1>>

QueryIds == {1}

(***************************************************************************)
(* Inputs.                                                                 *)
(***************************************************************************)
(* The shapes a layer may hold, in the dataset's projection. *)
Shapes ==
    { Rect(10, 10, 12, 12),   \* outside the raster
      Rect(6, 5, 10, 7),      \* across the raster's east edge
      Rect(6, 7, 7, 8),       \* inside pixel (3, 0), in the east tile
      Rect(2, 7, 5, 8),       \* a row of two pixels, in two tiles
      Rect(0, 5, 3, 7),       \* bounds of 2 x 2 pixels, in one tile
      Rect(3, 5, 7, 7) }      \* bounds of 3 x 2 pixels, in two tiles

Projs == {"native", "other"}

ShapeIds == 1..MaxShapes

(* The layers: up to MaxShapes features with distinct ids, in ascending or
   in descending order of id. *)
Layers ==
    UNION { { [proj  |-> pr,
               feats |-> [k \in 1..n |->
                            [id  |-> ids[k],
                             shp |-> TransformShape(shps[k], "native", pr)]]] :
                pr \in Projs,
                ids \in {f \in [1..n -> ShapeIds] :
                            \/ \A a, b \in 1..n : a < b => f[a] < f[b]
                            \/ \A a, b \in 1..n : a < b => f[a] > f[b]},
                shps \in [1..n -> Shapes] } : n \in 1..MaxShapes }

ScaleFactors == {2}

(***************************************************************************)
(* Pixel lookups.                                                          *)
(***************************************************************************)
(* read_vsimem(filename) / RasterBand(filename): whether the file can be
   read; opening a file that does not exist raises: smart_open in
   read_vsimem the "IOError" given here, RasterBand on the None of gdal.Open
   the AttributeError that the eager load puts in its place. *)
ReadTile(filename) ==
    IF \E key \in TileKeys \ dataset.missing : TileFilename(key) = filename
    THEN "" ELSE "IOError"

(* raster[y_px][x_px] of the tile at key: numpy indexing of one element. *)
TileValue(key, x_px, y_px) ==
    LET w == Min2(grid_size, xsize - key[1])
        h == Min2(grid_size, ysize - key[2])
    IN  IF x_px \in (-w)..(w - 1) /\ y_px \in (-h)..(h - 1)
        THEN [err |-> "", v |-> RasterValue(key[1] + (x_px % w), key[2] + (y_px % h))]
        ELSE [err |-> "IndexError", v |-> 0]

(* Mutant: the key is put in the store before the file is read. *)
_get_value_for_pixel_insert_first(store, px) ==
    LET key  == _get_grid_for_pixel(px)
        miss == key \notin store
        read == IF miss THEN ReadTile(TileFilename(key)) ELSE ""
        val  == TileValue(key, px[1] - key[1], px[2] - key[2])
    IN  IF read # ""
        THEN [store |-> store \cup {key}, value |-> 0, err |-> read, loaded |-> {}]
        ELSE [store  |-> store \cup {key},
              value  |-> val.v,
              err    |-> val.err,
              loaded |-> IF miss THEN {key} ELSE {}]

(* Mutant: the tile is read again although the store holds it. *)
_get_value_for_pixel_reload(store, px) ==
    LET key  == _get_grid_for_pixel(px)
        read == ReadTile(TileFilename(key))
        val  == TileValue(key, px[1] - key[1], px[2] - key[2])
    IN  IF read # ""
        THEN [store |-> store, value |-> 0, err |-> read, loaded |-> {}]
        ELSE [store  |-> store \cup {key},
              value  |-> val.v,
              err    |-> val.err,
              loaded |-> {key}]

(* RasterDataset._get_value_for_pixel on the store `store`: the store after,
   the value, the error raised ("" for none) and the keys loaded. *)
_get_value_for_pixel(store, px) ==
    LET key  == _get_grid_for_pixel(px)
        miss == key \notin store
        read == IF miss THEN ReadTile(TileFilename(key)) ELSE ""
        val  == TileValue(key, px[1] - key[1], px[2] - key[2])
    IN  IF read # ""
        THEN [store |-> store, value |-> 0, err |-> read, loaded |-> {}]
        ELSE [store  |-> store \cup {key},
              value  |-> val.v,
              err    |-> val.err,
              loaded |-> IF miss THEN {key} ELSE {}]

(* Mutant: the values of the tiled case come out last pixel first. *)
RECURSIVE TiledValuesReversed(_, _)
TiledValuesReversed(store, pxs) ==
    IF pxs = <<>> THEN [store |-> store, values |-> <<>>, loaded |-> {}, err |-> "",
                        n |-> 0]
    ELSE LET one == _get_value_for_pixel(store, Head(pxs))
         IN  IF one.err # ""
             THEN [store |-> one.store, values |-> <<>>, loaded |-> one.loaded,
                   err |-> one.err, n |-> 1]
             ELSE LET rest == TiledValuesReversed(one.store, Tail(pxs))
                  IN  [store  |-> rest.store,
                       values |-> rest.values \o <<one.value>>,
                       loaded |-> one.loaded \cup rest.loaded,
                       err    |-> rest.err,
                       n      |-> rest.n + 1]

(* The list comprehension of get_values_for_pixels, tiled case: pixel by
   pixel, until one raises. *)
RECURSIVE TiledValues(_, _)
TiledValues(store, pxs) ==
    IF pxs = <<>> THEN [store |-> store, values |-> <<>>, loaded |-> {}, err |-> "",
                        n |-> 0]
    ELSE LET one == _get_value_for_pixel(store, Head(pxs))
         IN  IF one.err # ""
             THEN [store |-> one.store, values |-> <<>>, loaded |-> one.loaded,
                   err |-> one.err, n |-> 1]
             ELSE LET rest == TiledValues(one.store, Tail(pxs))
                  IN  [store  |-> rest.store,
                       values |-> <<one.value>> \o rest.values,
                       loaded |-> one.loaded \cup rest.loaded,
                       err    |-> rest.err,
                       n      |-> rest.n + 1]

(* self.raster_arrays[pxs[:, 1], pxs[:, 0]] of the whole raster. *)
UntiledValues(pxs) ==
    IF \A k \in DOMAIN pxs : /\ pxs[k][1] \in (-xsize)..(xsize - 1)
                             /\ pxs[k][2] \in (-ysize)..(ysize - 1)
    THEN [values |-> [k \in DOMAIN pxs |->
                        RasterValue(pxs[k][1] % xsize, pxs[k][2] % ysize)],
          err |-> ""]
    ELSE [values |-> <<>>, err |-> "IndexError"]

(* Mutant: the test of grid_size is dropped, every dataset reads by tile. *)
get_values_for_pixels_by_tile(tiled, store, pxs) ==
    LET t == TiledValues(store, pxs)
    IN  [store  |-> t.store,
         values |-> IF t.err = "" THEN t.values ELSE <<>>,
         loaded |-> t.loaded, err |-> t.err, n |-> t.n]

(* RasterDataset.get_values_for_pixels *)
get_values_for_pixels(tiled, store, pxs) ==
    IF ~tiled
    THEN LET u == UntiledValues(pxs)
         IN  [store |-> store, values |-> u.values, loaded |-> {}, err |-> u.err,
              n |-> Len(pxs)]
    ELSE LET t == TiledValues(store, pxs)
         IN  [store  |-> t.store,
              values |-> IF t.err = "" THEN t.values ELSE <<>>,
              loaded |-> t.loaded, err |-> t.err, n |-> t.n]

(* Mutant: the layer's coordinates taken as they are. *)
to_pixels_untransformed(vector_layer) ==
    [k \in DOMAIN vector_layer.feats |-> shape_to_pixel(vector_layer.feats[k].shp)]

(***************************************************************************)
(* RasterBase.to_pixels(vector_layer)                                      *)
(***************************************************************************)
to_pixels(vector_layer) ==
    LET vl == IF DatasetProj # vector_layer.proj
              THEN transform(vector_layer, DatasetProj)
              ELSE vector_layer
    IN  [k \in DOMAIN vl.feats |-> shape_to_pixel(vl.feats[k].shp)]

(* dict(zip(keys, values)) *)
DictZip(keys, values) ==
    LET n == Min2(Len(keys), Len(values))
    IN  [x \in {keys[k] : k \in 1..n} |->
           values[CHOOSE k \in 1..n :
                     keys[k] = x /\ \A j \in (k + 1)..n : keys[j] # x]]

(* What query does with one surviving shape after the eager loads (raster.py
   734-751): the weights and the pixels whose values are looked up. *)
MaskOf(shp, ext_outline, ext_fill, scale_factor) ==
    Transpose(rasterize(shp, ext_outline, ext_fill, scale_factor))

WeightsOf(mask) ==
    LET idx == argwhere(mask)
    IN  IF Len(idx) = 0
        THEN <<mask[1]>>     \* mask[[0]]: a 2-D array of the mask's first row
        ELSE [k \in DOMAIN idx |-> mask[idx[k][1] + 1][idx[k][2] + 1]]

PtsOf(mask, shp) ==
    LET idx == argwhere(mask)
    IN  [k \in DOMAIN idx |-> <<idx[k][1] + shp.x0, idx[k][2] + shp.y0>>]

(***************************************************************************)
(* RasterDataset.query: a generator.  Its frame is a record; pc is where   *)
(* it stands:                                                              *)
(*   "idle"     the slot holds no generator                                *)
(*   "new"      query() was called, no line of its body has run            *)
(*   "eager"    in the loop of raster.py 728-732, todo the keys left       *)
(*   "lookup"   before raster.py 735                                       *)
(*   "yielded"  suspended at a yield (raster.py 723 or 754)                *)
(*   "done"     the loop of raster.py 719 ended: StopIteration             *)
(*   "error"    an exception left the generator (err names it)             *)
(* In "new", "yielded", "done" and "error" control is with the caller.     *)
(***************************************************************************)
NoFun == <<>>

IdleGen ==
    [pc |-> "idle", layer |-> [proj |-> "native", feats |-> <<>>],
     missing_first |-> FALSE, ext_outline |-> FALSE, ext_fill |-> FALSE,
     scale_factor |-> 0, vl_ids |-> <<>>, ids |-> <<>>, px_shps |-> NoFun,
     has_tiles |-> FALSE, tiles_to_ids |-> NoFun, ids_to_tiles |-> NoFun,
     i |-> 0, todo |-> {}, results |-> <<>>, err |-> "",
     \* what happened so far: the next() calls, the tiles loaded (with the
     \* position in ids of the shape they were loaded for), the pixels
     \* looked up for each position, the store when query() was called, the
     \* tiles the caller's own lookups loaded since query() was called and
     \* before the generator ended
     npulls |-> 0, loads |-> {}, nlook |-> <<>>, store0 |-> {}, foreign |-> {}]

Raise(g, e) == [g EXCEPT !.pc = "error", !.err = e]

(* An index with a file name that is not {x}_{y}.tif. *)
BadIndex ==
    {[file |-> IF key = <<0, 0>> THEN TileFilename(key)
               ELSE Path \o <<"e", "a", "s", "t", ".", "t", "i", "f">>,
      f    |-> TileFootprint(key)] : key \in TileKeys}

(* self.index of the dataset. *)
DatasetIndex == IF dataset.bad THEN BadIndex ELSE Index

(* raster.py 698-708: the tiles' shapes and the shapes' tiles. *)
TilesToIds(vl) ==
    LET res == [e \in DatasetIndex |-> Range(LayerIds(intersects(vl, e.f)))]
        keys == {_key_from_tile_filename(e.file).key :
                    e \in {e \in DatasetIndex : res[e] # {}}}
    IN  [k \in keys |->
           UNION {res[e] : e \in {e \in DatasetIndex :
                                      _key_from_tile_filename(e.file).key = k}}]

IdsToTiles(tiles_to_ids, vl_ids) ==
    [id \in Range(vl_ids) |-> {k \in DOMAIN tiles_to_ids : id \in tiles_to_ids[k]}]

(* Mutant of the filter: it keeps what intersects the box. *)
BoundsFilterIntersects(vl) == intersects(vl, bbox)

(* The filter of raster.py 686-688. *)
BoundsFilter(vl) == within(vl, bbox)

(* Mutant: the two branches of raster.py 712-715 exchanged. *)
EmissionIdsSwapped(layer_ids, vl_ids, missing_first) ==
    LET missing == difference(layer_ids, vl_ids)
    IN  IF missing_first THEN append(vl_ids, missing) ELSE append(missing, vl_ids)

(* raster.py 710-715 *)
EmissionIds(layer_ids, vl_ids, missing_first) ==
    LET missing == difference(layer_ids, vl_ids)
    IN  IF missing_first THEN append(missing, vl_ids) ELSE append(vl_ids, missing)

(* Mutant: the ids zipped with the shapes of the layer in another order. *)
PxShpsMisaligned(vl) ==
    LET n == Len(vl.feats)
        rev == [vl EXCEPT !.feats = [k \in 1..n |-> vl.feats[n + 1 - k]]]
    IN  DictZip(LayerIds(vl), to_pixels(rev))

(* raster.py 717 *)
PxShps(vl) == DictZip(LayerIds(vl), to_pixels(vl))

(* raster.py 682-717, run by the first next(): the frame before the loop.
   With a layer in the dataset's projection, vl is not bound when line 688
   reads it. *)
Prelude(g, has_index) ==
    IF DatasetProj = g.layer.proj THEN Raise(g, "UnboundLocalError")
    ELSE
    LET vl0 == transform(g.layer, DatasetProj)
        vl1 == BoundsFilter(vl0)
        bad == has_index /\ \E e \in DatasetIndex : _key_from_tile_filename(e.file).err # ""
        t2i == IF has_index /\ ~bad THEN TilesToIds(vl1) ELSE NoFun
        vl  == IF has_index THEN sort(vl1) ELSE vl1
    IN  IF bad THEN Raise(g, "AttributeError")
        ELSE [g EXCEPT !.vl_ids = LayerIds(vl),
                       !.ids = EmissionIds(LayerIds(g.layer), LayerIds(vl),
                                           g.missing_first),
                       !.px_shps = PxShps(vl),
                       !.has_tiles = has_index,
                       !.tiles_to_ids = t2i,
                       !.ids_to_tiles =
                           IF has_index THEN IdsToTiles(t2i, LayerIds(vl)) ELSE NoFun]

(* Mutant: the result of a missing shape is stored and the loop goes on
   without a yield. *)
RECURSIVE LoopHeadRunAhead(_)
LoopHeadRunAhead(g) ==
    IF g.pc = "error" THEN g
    ELSE IF g.i >= Len(g.ids) THEN [g EXCEPT !.pc = "done"]
    ELSE LET id == g.ids[g.i + 1]
         IN  IF id \notin DOMAIN g.px_shps
             THEN LoopHeadRunAhead(
                      [g EXCEPT !.i = g.i + 1,
                                !.nlook = Append(g.nlook, 0),
                                !.results = Append(g.results,
                                    [id |-> id, values |-> <<>>, weights |-> <<>>])])
             ELSE LET todo == IF g.has_tiles THEN g.ids_to_tiles[id] ELSE {}
                  IN  [g EXCEPT !.i = g.i + 1, !.todo = todo,
                                !.nlook = Append(g.nlook, 0),
                                !.pc = IF todo = {} THEN "lookup" ELSE "eager"]

(* raster.py 719-723: the next id of the loop; a missing shape's result is
   yielded at once. *)
LoopHead(g) ==
    IF g.pc = "error" THEN g
    ELSE IF g.i >= Len(g.ids) THEN [g EXCEPT !.pc = "done"]
    ELSE LET id == g.ids[g.i + 1]
         IN  IF id \notin DOMAIN g.px_shps
             THEN [g EXCEPT !.i = g.i + 1, !.pc = "yielded",
                            !.nlook = Append(g.nlook, 0),
                            !.results = Append(g.results,
                                [id |-> id, values |-> <<>>, weights |-> <<>>])]
             ELSE LET todo == IF g.has_tiles THEN g.ids_to_tiles[id] ELSE {}
                  IN  [g EXCEPT !.i = g.i + 1, !.todo = todo,
                                !.nlook = Append(g.nlook, 0),
                                !.pc = IF todo = {} THEN "lookup" ELSE "eager"]

(***************************************************************************)
(* test_raster_band.py: get_counts_for_shape and the two conversions of    *)
(* test_raster_band_should_convert_coordinates_single_shape.               *)
(***************************************************************************)
(* np.bincount of the values: value -> how many times. *)
Bincount(values) ==
    [v \in 0..(xsize * ysize - 1) |-> Cardinality({k \in DOMAIN values : values[k] = v})]

(* rasterize(shp, ext_outline=0, int_outline=1).T, the pixels of its cells
   above zero, and the counts of the band's values there. *)
get_counts_for_shape(shp) ==
    LET mask == MaskOf(shp, FALSE, TRUE, 4)
        u    == UntiledValues(PtsOf(mask, shp))
    IN  [err |-> u.err, counts |-> Bincount(u.values)]

(* No call of rasterize, no call of get_values_for_pixels yet. *)
NoRasterize ==
    [shp |-> Rect(0, 0, 0, 0), ext_outline |-> FALSE, ext_fill |-> FALSE,
     scale_factor |-> 0, grid |-> <<>>, pts |-> <<>>, weights |-> <<>>]

NoLookup == [pxs |-> <<>>, values |-> <<>>, err |-> "", loaded |-> {}, before |-> {}]

NoGrid == [gs |-> 0, px |-> <<0, 0>>, key |-> <<0, 0>>, off |-> <<0, 0>>,
           err |-> "", value |-> 0]

NoPoint == [lon |-> 0, lat |-> 0, called |-> FALSE, px |-> <<0, 0>>]

NoTest == [layer |-> [proj |-> "native", feats |-> <<>>],
           px_shps_transformed |-> <<>>, px_shps_not_transformed |-> <<>>,
           counts_transformed |-> <<>>, counts_not_transformed |-> <<>>]

(***************************************************************************)
(* Initial state: a dataset as read_catalog or read_raster constructs it.  *)
(* An untiled dataset reads its raster at once; a tiled one holds no tile. *)
(***************************************************************************)
Datasets ==
    { [tiled |-> FALSE, index |-> FALSE, bad |-> FALSE, missing |-> {}],
      [tiled |-> FALSE, index |-> TRUE,  bad |-> FALSE, missing |-> {}],
      [tiled |-> TRUE,  index |-> FALSE, bad |-> FALSE, missing |-> {}],
      [tiled |-> TRUE,  index |-> TRUE,  bad |-> FALSE, missing |-> {}],
      [tiled |-> TRUE,  index |-> TRUE,  bad |-> TRUE,  missing |-> {}] }

(* Tiled datasets one of whose tile files cannot be read. *)
DatasetsMissingFile ==
    { [tiled |-> TRUE, index |-> ix, bad |-> FALSE, missing |-> {key}] :
        ix \in BOOLEAN, key \in TileKeys }

Init ==
    /\ dataset \in Datasets
    /\ raster_arrays = IF dataset.tiled THEN {} ELSE {Whole}
    /\ gens = [q \in QueryIds |-> IdleGen]
    /\ px_test = NoTest
    /\ rz = NoRasterize
    /\ lk = NoLookup
    /\ gp = NoGrid
    /\ tp = NoPoint

(***************************************************************************)
(* The caller calls query(...): a generator is made and nothing runs.      *)
(***************************************************************************)
NewQuery(q) ==
    /\ gens[q].pc = "idle"
    /\ \E layer \in Layers, mf \in BOOLEAN, eo \in BOOLEAN, ef \in BOOLEAN,
          sf \in ScaleFactors :
          gens' = [gens EXCEPT ![q] =
                     [IdleGen EXCEPT !.pc = "new", !.layer = layer,
                                     !.store0 = raster_arrays,
                                     !.missing_first = mf, !.ext_outline = eo,
                                     !.ext_fill = ef, !.scale_factor = sf]]
    /\ UNCHANGED <<dataset, raster_arrays, px_test, rz, lk, gp, tp>>

(* The first next(): raster.py 682-717, then the head of the loop. *)
Start(q) ==
    /\ gens[q].pc = "new"
    /\ gens' = [gens EXCEPT ![q] =
                  LoopHead([Prelude(gens[q], dataset.index) EXCEPT !.npulls = 1])]
    /\ UNCHANGED <<dataset, raster_arrays, px_test, rz, lk, gp, tp>>

(* Mutant: no tile is ever found without a shape left. *)
EmptyTilesNone(g) == {}

(* Mutant: every tile of the index's mapping is found without a shape. *)
EmptyTilesAll(g) == DOMAIN g.tiles_to_ids

(* The tiles raster.py 760 finds without a shape left. *)
EmptyTiles(g) == {k \in DOMAIN g.tiles_to_ids : g.tiles_to_ids[k] = {}}

(* A later next(): the generator resumes after its yield, raster.py 756-763
   (the tiles no shape is left for are dropped), then the head of the loop.
   del raises KeyError for a tile the store does not hold; the tiles the loop
   took before it are gone by then. *)
Resume(q) ==
    LET g == gens[q]
        empty == EmptyTiles(g)
        g1 == [g EXCEPT !.npulls = g.npulls + 1]
    IN  /\ g.pc = "yielded"
        /\ IF ~g.has_tiles
           THEN /\ gens' = [gens EXCEPT ![q] = LoopHead(g1)]
                /\ UNCHANGED raster_arrays
           ELSE IF empty \subseteq raster_arrays
           THEN /\ raster_arrays' = raster_arrays \ empty
                /\ gens' = [gens EXCEPT ![q] = LoopHead(
                              [g1 EXCEPT !.tiles_to_ids =
                                 [k \in (DOMAIN g.tiles_to_ids) \ empty |->
                                    g.tiles_to_ids[k]]])]
           ELSE \E gone \in SUBSET (empty \cap raster_arrays) :
                /\ raster_arrays' = raster_arrays \ gone
                /\ gens' = [gens EXCEPT ![q] = Raise(
                              [g1 EXCEPT !.tiles_to_ids =
                                 [k \in (DOMAIN g.tiles_to_ids) \ gone |->
                                    g.tiles_to_ids[k]]], "KeyError")]
        /\ UNCHANGED <<dataset, px_test, rz, lk, gp, tp>>

(* One round of the loop of raster.py 728-732, for one key of the shape's
   tiles: the tile is loaded unless the store holds it, and the shape is
   taken out of the tile's set.  RasterBand(filename) of a file that cannot
   be opened raises AttributeError (gdal.Open gives None, raster.py 361-363).
   The store of an untiled dataset is the array of the whole raster, of
   ysize rows and xsize columns: the key, a pair, is not `in` an array of
   another width, and the assignment of a tile's array to the element at
   [key] raises IndexError for a key outside the array and ValueError for
   one inside, and leaves the array as it is. *)
EagerLoadTile(q) ==
    LET g  == gens[q]
        id == g.ids[g.i]
    IN  /\ g.pc = "eager"
        /\ \E key \in g.todo :
             LET miss == key \notin raster_arrays
                 read == IF miss /\ ReadTile(TileFilename(key)) # ""
                         THEN "AttributeError" ELSE ""
                 todo == g.todo \ {key}
                 inside == /\ key[1] \in (-ysize)..(ysize - 1)
                           /\ key[2] \in (-xsize)..(xsize - 1)
             IN  IF read # ""
                 THEN /\ gens' = [gens EXCEPT ![q] = Raise(g, read)]
                      /\ UNCHANGED raster_arrays
                 ELSE IF ~dataset.tiled
                 THEN /\ gens' = [gens EXCEPT ![q] =
                            Raise(g, IF inside THEN "ValueError" ELSE "IndexError")]
                      /\ UNCHANGED raster_arrays
                 ELSE /\ raster_arrays' = raster_arrays \cup {key}
                      /\ gens' = [gens EXCEPT ![q] =
                            [g EXCEPT !.todo = todo,
                                      !.loads = IF miss THEN g.loads \cup {<<g.i, key>>}
                                                ELSE g.loads,
                                      !.tiles_to_ids[key] = g.tiles_to_ids[key] \ {id},
                                      !.pc = IF todo = {} THEN "lookup" ELSE "eager"]]
        /\ UNCHANGED <<dataset, px_test, rz, lk, gp, tp>>

(* raster.py 734-754: the shape is rasterized, the values of its pixels are
   looked up and the result is yielded. *)
Lookup(q) ==
    LET g    == gens[q]
        id   == g.ids[g.i]
        shp  == g.px_shps[id]
        mask == MaskOf(shp, g.ext_outline, g.ext_fill, g.scale_factor)
        got  == get_values_for_pixels(dataset.tiled, raster_arrays, PtsOf(mask, shp))
        g1   == [g EXCEPT !.loads = g.loads \cup {<<g.i, k>> : k \in got.loaded},
                          !.nlook[g.i] = got.n]
    IN  /\ g.pc = "lookup"
        /\ raster_arrays' = got.store
        /\ gens' = [gens EXCEPT ![q] =
              IF got.err # "" THEN Raise(g1, got.err)
              ELSE [g1 EXCEPT !.pc = "yielded",
                              !.results = Append(g.results,
                                  [id |-> id, values |-> got.values,
                                   weights |-> WeightsOf(mask)])]]
        /\ UNCHANGED <<dataset, px_test, rz, lk, gp, tp>>

(* The caller looks one pixel of the raster up itself, between two next()
   calls of the generators it holds (the body of a generator runs only
   inside a next()): get_values_for_pixels(np.array([px])), for the first
   pixel of a tile (the value is not kept, so any pixel of the tile does the
   same).  The frames of the generators that are not at their end yet take
   note of the tiles loaded. *)
Pixels == (0..(xsize - 1)) \X (0..(ysize - 1))

FirstPixels == {px \in Pixels : px[1] % grid_size = 0 /\ px[2] % grid_size = 0}

GetValuesForPixels ==
    /\ \A q \in DOMAIN gens : gens[q].pc \notin {"eager", "lookup"}
    /\ \E px \in FirstPixels :
         LET got == get_values_for_pixels(dataset.tiled, raster_arrays, <<px>>)
         IN  /\ raster_arrays' = got.store
             /\ gens' = [q \in DOMAIN gens |->
                           IF gens[q].pc \in {"new", "yielded"}
                           THEN [gens[q] EXCEPT !.foreign = @ \cup got.loaded]
                           ELSE gens[q]]
    /\ UNCHANGED <<dataset, px_test, rz, lk, gp, tp>>

(* The test, run once: a layer in another projection goes through to_pixels
   as it is and after the caller transformed it. *)
TestConvertCoordinates ==
    /\ px_test = NoTest
    /\ \E layer \in {l \in Layers : l.proj = "other"} :
         LET vl_transformed == transform(layer, DatasetProj)
             a == to_pixels(vl_transformed)
             b == to_pixels(layer)
         IN  px_test' = [layer |-> layer,
                         px_shps_transformed |-> a,
                         px_shps_not_transformed |-> b,
                         counts_transformed |-> get_counts_for_shape(a[1]),
                         counts_not_transformed |-> get_counts_for_shape(b[1])]
    /\ UNCHANGED <<dataset, raster_arrays, gens, rz, lk, gp, tp>>

(* rasterize(shp, ...) alone, on a shape in pixel coordinates, and what
   raster.py 735-749 takes from its grid. *)
PixelShapes == {Rect(2, 2, 2 + w, 2 + h) : w \in 0..MaxSide, h \in 0..MaxSide}

RasterizeScales == {1, 2, 4}

CallRasterize ==
    /\ rz = NoRasterize
    /\ \E shp \in PixelShapes, eo \in BOOLEAN, ef \in BOOLEAN, sf \in RasterizeScales :
         LET mask == MaskOf(shp, eo, ef, sf)
         IN  rz' = [shp |-> shp, ext_outline |-> eo, ext_fill |-> ef,
                    scale_factor |-> sf,
                    grid |-> rasterize(shp, eo, ef, sf),
                    pts |-> PtsOf(mask, shp),
                    weights |-> WeightsOf(mask)]
    /\ UNCHANGED <<dataset, raster_arrays, gens, px_test, lk, gp, tp>>

(* get_values_for_pixels(pxs) alone, on a list of pixels of the raster.
   Calls of one pixel come first and leave tiles in the store; a call of
   several pixels is the last one looked at. *)
PixelLists == UNION {[1..n -> Pixels] : n \in 1..MaxPixels}

(* The grid sizes and the pixels the key is computed for: the dataset's own
   grid and two others, the pixels up to MaxGridPx and the pixel of the
   documentation's example. *)
GridSizes == {grid_size, 3, 100}

GridPixels == ((0..MaxGridPx) \X (0..MaxGridPx)) \cup {<<118, 243>>}

(* raster.py 577-578: the place of the pixel in its tile. *)
LocalOffset(key, px) == <<px[1] - key[1], px[2] - key[2]>>

(* raster.py 560-580, _get_value_for_pixel for one pixel of a dataset that
   was given the grid size gs, over the tile files of the model's raster:
   the key, the tile read into the store on a miss (the read raises when no
   file has the key's name), the offset, and the value read at the offset
   in the tile (the indexing raises outside the tile's array). *)
CallGetGridForPixel ==
    /\ gp = NoGrid /\ dataset.tiled
    /\ \E gs \in GridSizes, px \in GridPixels :
         LET key  == grid_for_pixel(gs, px[1], px[2])
             miss == key \notin raster_arrays
             read == IF miss THEN ReadTile(TileFilename(key)) ELSE ""
             off  == LocalOffset(key, px)
             val  == IF read = "" THEN TileValue(key, off[1], off[2])
                     ELSE [err |-> read, v |-> 0]
         IN  /\ raster_arrays' = IF read = "" THEN raster_arrays \cup {key}
                                  ELSE raster_arrays
             /\ gp' = [gs |-> gs, px |-> px, key |-> key, off |-> off,
                       err |-> val.err,
                       value |-> IF val.err = "" THEN val.v ELSE 0]
    /\ UNCHANGED <<dataset, gens, px_test, rz, lk, tp>>

(* The points given to _to_pixels: up to MaxOff on either side of the
   raster's origin, in both coordinates. *)
PointLons == (min_lon - MaxOff)..(min_lon + MaxOff)

PointLats == (max_lat - MaxOff)..(max_lat + MaxOff)

CallToPixels ==
    /\ ~tp.called
    /\ \E lon \in PointLons, lat \in PointLats :
         tp' = [lon |-> lon, lat |-> lat, called |-> TRUE, px |-> _to_pixels(lon, lat)]
    /\ UNCHANGED <<dataset, raster_arrays, gens, px_test, rz, lk, gp>>

CallGetValuesForPixels ==
    /\ Len(lk.pxs) <= 1
    /\ \E pxs \in PixelLists :
         LET got == get_values_for_pixels(dataset.tiled, raster_arrays, pxs)
         IN  /\ raster_arrays' = got.store
             /\ lk' = [pxs |-> pxs, values |-> got.values, err |-> got.err,
                       loaded |-> got.loaded, before |-> raster_arrays]
    /\ UNCHANGED <<dataset, gens, px_test, rz, gp, tp>>

Next ==
    \/ \E q \in QueryIds : NewQuery(q)
    \/ \E q \in QueryIds : Start(q)
    \/ \E q \in QueryIds : Resume(q)
    \/ \E q \in QueryIds : EagerLoadTile(q)
    \/ \E q \in QueryIds : Lookup(q)
    \/ GetValuesForPixels

Spec == Init /\ [][Next]_vars

(* The same program on a dataset with an unreadable tile file. *)
InitMissingFile ==
    /\ dataset \in DatasetsMissingFile
    /\ raster_arrays = {}
    /\ gens = [q \in QueryIds |-> IdleGen]
    /\ px_test = NoTest
    /\ rz = NoRasterize
    /\ lk = NoLookup
    /\ gp = NoGrid
    /\ tp = NoPoint

SpecMissingFile == InitMissingFile /\ [][Next]_vars

(* Two generators of one tiled dataset with an index, iterated in turns by
   one caller: a generator runs from one of its yields to the next, and the
   caller chooses which one to pull.  The layers are in another projection
   and hold one or two shapes, each in the west tile or in the east tile;
   the flags are the defaults of query(). *)
InterleavedIds == {1, 2}

InterleavedShapes == {Rect(0, 5, 3, 7), Rect(6, 7, 7, 8)}

InterleavedLayers ==
    UNION { { [proj  |-> "other",
               feats |-> [k \in 1..n |->
                            [id  |-> k,
                             shp |-> TransformShape(shps[k], "native", "other")]]] :
                shps \in [1..n -> InterleavedShapes] } : n \in 1..2 }

NewQueryInterleaved(q) ==
    /\ gens[q].pc = "idle"
    /\ \E layer \in InterleavedLayers, sf \in ScaleFactors :
          gens' = [gens EXCEPT ![q] =
                     [IdleGen EXCEPT !.pc = "new", !.layer = layer,
                                     !.store0 = raster_arrays,
                                     !.scale_factor = sf]]
    /\ UNCHANGED <<dataset, raster_arrays, px_test, rz, lk, gp, tp>>

InitInterleaved ==
    /\ dataset = [tiled |-> TRUE, index |-> TRUE, bad |-> FALSE, missing |-> {}]
    /\ raster_arrays = {}
    /\ gens = [q \in InterleavedIds |-> IdleGen]
    /\ px_test = NoTest
    /\ rz = NoRasterize
    /\ lk = NoLookup
    /\ gp = NoGrid
    /\ tp = NoPoint

(* No other generator is inside a next(): the caller is one thread, and the
   body of a generator runs only from the call of next() to the next yield. *)
Turn(q) ==
    \A r \in InterleavedIds \ {q} : gens[r].pc \notin {"eager", "lookup"}

StartInTurn(q) == Turn(q) /\ Start(q)

ResumeInTurn(q) == Turn(q) /\ Resume(q)

EagerLoadTileInTurn(q) == Turn(q) /\ EagerLoadTile(q)

LookupInTurn(q) == Turn(q) /\ Lookup(q)

NextInterleaved ==
    \/ \E q \in InterleavedIds : NewQueryInterleaved(q)
    \/ \E q \in InterleavedIds : StartInTurn(q)
    \/ \E q \in InterleavedIds : ResumeInTurn(q)
    \/ \E q \in InterleavedIds : EagerLoadTileInTurn(q)
    \/ \E q \in InterleavedIds : LookupInTurn(q)

SpecInterleaved == InitInterleaved /\ [][NextInterleaved]_vars

(* The test alone, on a band. *)
NextTest == TestConvertCoordinates

SpecTest == Init /\ [][NextTest]_vars

(* rasterize alone. *)
NextRasterize == CallRasterize

(* The key and the offset of a pixel alone. *)
NextGrid == CallGetGridForPixel

SpecGrid == Init /\ [][NextGrid]_vars

(* _to_pixels alone. *)
NextToPixels == CallToPixels

SpecToPixels == Init /\ [][NextToPixels]_vars

SpecRasterize == Init /\ [][NextRasterize]_vars

(* get_values_for_pixels alone. *)
NextLookup == CallGetValuesForPixels

SpecLookup == Init /\ [][NextLookup]_vars

(***************************************************************************)
(* What the properties below speak of.                                     *)
(***************************************************************************)
(* The feature of the query's layer with this id, where it stands in the
   layer, and its shape in the dataset's projection. *)
InputPos(g, id) == CHOOSE k \in DOMAIN g.layer.feats : g.layer.feats[k].id = id

NativeShape(g, id) ==
    TransformShape(g.layer.feats[InputPos(g, id)].shp, g.layer.proj, DatasetProj)

(* Lines 682-717 have run without an exception. *)
Started(g) == g.npulls >= 1 /\ ~(g.pc = "error" /\ g.i = 0)

(* The shape passed the bounds filter. *)
Survives(g, id) == id \in Range(g.vl_ids)

Outside(shp) == ~Intersects(shp, bbox)
PartlyInside(shp) == Intersects(shp, bbox) /\ ~Within(shp, bbox)

(* The result the shape with this id calls for: nothing for a shape the
   filter took out, else the weights of its own mask and the raster's values
   at its own pixels. *)
ResultFor(g, id) ==
    IF ~Survives(g, id) THEN [id |-> id, values |-> <<>>, weights |-> <<>>]
    ELSE LET px   == shape_to_pixel(NativeShape(g, id))
             mask == MaskOf(px, g.ext_outline, g.ext_fill, g.scale_factor)
             pts  == PtsOf(mask, px)
         IN  [id      |-> id,
              values  |-> [k \in DOMAIN pts |-> RasterValue(pts[k][1], pts[k][2])],
              weights |-> WeightsOf(mask)]

(* The tiles whose footprint a shape that is within the raster meets. *)
TouchedTiles(g, id) ==
    IF Within(NativeShape(g, id), bbox)
    THEN {key \in TileKeys : Intersects(NativeShape(g, id), TileFootprint(key))}
    ELSE {}

(* C1: every result yielded by query has as many values as weights. *)
C1_ValuesMatchWeights ==
    \A q \in QueryIds : \A k \in DOMAIN gens[q].results :
        Len(gens[q].results[k].values) = Len(gens[q].results[k].weights)

(* C2: when a query has been consumed to its end, every id of the input
   layer has exactly one result, and that result holds the values and the
   weights of the shape with that id, whatever missing_first is and whether
   the index reordered the shapes or not. *)
C2_OneResultPerShape ==
    \A q \in QueryIds :
        LET g == gens[q]
        IN  g.pc = "done" =>
              /\ Len(g.results) = Len(g.layer.feats)
              /\ \A j \in DOMAIN g.layer.feats :
                    Cardinality({k \in DOMAIN g.results :
                                    g.results[k].id = g.layer.feats[j].id}) = 1
              /\ \A k \in DOMAIN g.results :
                    g.results[k] = ResultFor(g, g.results[k].id)

(* A query of two surviving shapes that the index reordered is consumed. *)
C2_Witness ==
    \E q \in QueryIds :
        LET g == gens[q]
        IN  /\ g.pc = "done" /\ g.has_tiles /\ Len(g.results) = 2
            /\ \A k \in 1..2 : Survives(g, g.results[k].id)
            /\ g.results[1].id = g.layer.feats[2].id
            /\ g.results[1].values # g.results[2].values

(* C3: a shape entirely outside the raster's bounding box gets a result with
   no values and no weights: the query of a layer that holds such a shape
   raises nothing before its loop, and when the loop reaches the shape the
   empty result is there, no exception is raised, no tile is loaded and no
   pixel is looked up for it. *)
C3_OutsideShapeEmptyResult ==
    \A q \in QueryIds :
        LET g == gens[q]
        IN  \A j \in DOMAIN g.layer.feats :
              Outside(NativeShape(g, g.layer.feats[j].id)) =>
                /\ ~(g.pc = "error" /\ g.i = 0)
                /\ \A k \in 1..g.i :
                     g.ids[k] = g.layer.feats[j].id =>
                       /\ Len(g.results) >= k
                       /\ g.results[k].id = g.ids[k]
                       /\ g.results[k].values = <<>>
                       /\ g.results[k].weights = <<>>
                       /\ g.nlook[k] = 0
                       /\ \A key \in TileKeys : <<k, key>> \notin g.loads
                       /\ ~(g.pc = "error" /\ g.i = k)

(* C4 as claimed: the bounds filter marks a shape missing only when it does
   not intersect the raster's bounding box. *)
C4_MissingOnlyIfDisjoint ==
    \A q \in QueryIds :
        LET g == gens[q]
        IN  Started(g) =>
              \A j \in DOMAIN g.layer.feats :
                 ~Survives(g, g.layer.feats[j].id) =>
                    Outside(NativeShape(g, g.layer.feats[j].id))

(* C4 amended: the bounds filter keeps exactly the shapes that lie within
   the raster's bounding box; a shape that overlaps it only partly is marked
   missing and gets the empty result. *)
C4_MissingIffNotWithin ==
    \A q \in QueryIds :
        LET g == gens[q]
        IN  Started(g) =>
              /\ \A j \in DOMAIN g.layer.feats :
                    Survives(g, g.layer.feats[j].id)
                       <=> Within(NativeShape(g, g.layer.feats[j].id), bbox)
              /\ \A k \in DOMAIN g.results :
                    PartlyInside(NativeShape(g, g.results[k].id)) =>
                       g.results[k].values = <<>> /\ g.results[k].weights = <<>>

(* The result of a shape that lies across the raster's edge was yielded. *)
C4_Witness ==
    \E q \in QueryIds :
        LET g == gens[q]
        IN  \E k \in DOMAIN g.results :
               /\ PartlyInside(NativeShape(g, g.results[k].id))
               /\ g.results[k].values = <<>>

(* C5: with missing_first no surviving shape's result comes before a missing
   shape's; without it no missing shape's result comes before a surviving
   shape's. *)
C5_EmissionOrder ==
    \A q \in QueryIds :
        LET g == gens[q]
        IN  \A j, k \in DOMAIN g.results :
              j < k =>
                /\ g.missing_first =>
                     ~(Survives(g, g.results[j].id) /\ ~Survives(g, g.results[k].id))
                /\ ~g.missing_first =>
                     ~(~Survives(g, g.results[j].id) /\ Survives(g, g.results[k].id))

(* With missing_first, the missing second shape of a layer came out first. *)
C5_Witness ==
    \E q \in QueryIds :
        LET g == gens[q]
        IN  /\ g.pc = "done" /\ g.missing_first /\ Len(g.results) = 2
            /\ g.results[1].id = g.layer.feats[2].id
            /\ ~Survives(g, g.results[1].id)
            /\ Survives(g, g.results[2].id)
            /\ g.results[2].values # <<>>

(* C6: within the missing group and within the surviving group the results
   come in the order the shapes have in the input layer; only the surviving
   shapes of a query with an index may come in another order. *)
C6_OriginalOrderWithinGroups ==
    \A q \in QueryIds :
        LET g == gens[q]
        IN  \A j, k \in DOMAIN g.results :
              LET a == g.results[j].id
                  b == g.results[k].id
              IN  /\ j < k
                  /\ \/ ~Survives(g, a) /\ ~Survives(g, b)
                     \/ Survives(g, a) /\ Survives(g, b) /\ ~g.has_tiles
                  => InputPos(g, a) < InputPos(g, b)

(* The tiles the shapes at the positions from..Len(ids) of the loop touch. *)
PendingTiles(g, from) ==
    UNION {TouchedTiles(g, g.ids[k]) : k \in from..Len(g.ids)}

(* The shapes of a query that are not fully processed yet: all of them
   before the first next(), then the one the loop is at (its tiles are
   dropped when the generator resumes) and those after it. *)
NotProcessedTiles(g) ==
    IF g.pc = "new"
    THEN UNION {TouchedTiles(g, g.layer.feats[j].id) : j \in DOMAIN g.layer.feats}
    ELSE PendingTiles(g, g.i)

Running(g) == g.pc \in {"new", "eager", "lookup", "yielded"}

(* C7 as claimed: at every point of a query of a tiled dataset with an
   index, no more tiles are resident than the shapes not yet fully processed
   touch. *)
C7_ResidentTilesBounded ==
    \A q \in QueryIds :
        LET g == gens[q]
        IN  dataset.tiled /\ dataset.index /\ Running(g) =>
              Cardinality(raster_arrays) <= Cardinality(NotProcessedTiles(g))

(* C7 amended: the same, for a query that found the tile store empty when
   query() was called and that alone uses the dataset while it runs. *)
C7_ResidentTilesBoundedFromEmpty ==
    \A q \in QueryIds :
        LET g == gens[q]
        IN  /\ dataset.tiled /\ dataset.index /\ Running(g)
            /\ g.store0 = {} /\ g.foreign = {}
            => /\ Cardinality(raster_arrays) <= Cardinality(NotProcessedTiles(g))
               /\ raster_arrays \subseteq NotProcessedTiles(g)

(* A query that began with an empty store has dropped the tile of its first
   shape and holds only the tile of its second. *)
C7_Witness ==
    \E q \in QueryIds :
        LET g == gens[q]
        IN  /\ dataset.tiled /\ dataset.index /\ g.store0 = {} /\ g.foreign = {}
            /\ g.pc = "yielded" /\ g.i = 2
            /\ \E key \in TileKeys : <<1, key>> \in g.loads /\ key \notin raster_arrays
            /\ raster_arrays # {}

(* C8: a query with a layer in the dataset's own projection gives, id by id,
   the results of the query with the same shapes in another projection. *)
C8_NativeSameAsReprojected ==
    \A q \in QueryIds :
        LET g == gens[q]
            o == Prelude([g EXCEPT !.layer = transform(g.layer, "other"),
                                   !.pc = "new", !.err = ""],
                         dataset.index)
        IN  g.layer.proj = DatasetProj /\ g.npulls >= 1 /\ o.pc # "error" =>
              /\ ~(g.pc = "error" /\ g.i = 0)
              /\ g.ids = o.ids
              /\ \A k \in DOMAIN g.results : g.results[k] = ResultFor(o, o.ids[k])

(* C9: to_pixels gives a layer in another projection the pixel shapes it
   gives the layer the caller transformed, and the counts of the raster's
   values under the first shape are the same. *)
C9_ToPixelsConvertsCoordinates ==
    px_test.layer.feats # <<>> =>
        /\ px_test.px_shps_not_transformed = px_test.px_shps_transformed
        /\ px_test.counts_not_transformed = px_test.counts_transformed

(* The test ran on a shape within the raster and counted some values. *)
C9_Witness ==
    /\ px_test.layer.feats # <<>>
    /\ px_test.layer.proj # DatasetProj
    /\ Within(TransformShape(px_test.layer.feats[1].shp, px_test.layer.proj,
                             DatasetProj), bbox)
    /\ px_test.counts_not_transformed.err = ""
    /\ \E v \in DOMAIN px_test.counts_not_transformed.counts :
          px_test.counts_not_transformed.counts[v] > 0

(* C10: the generator works only when it is pulled: it never is further in
   its ids than the consumer's next() calls, before the first next() the
   store is as query() found it but for the tiles the caller's own lookups
   loaded, and every tile load and pixel lookup was
   made for a shape whose result the consumer had asked for; while the
   generator waits at a yield, all of them were for results it has given. *)
C10_LazyPullDriven ==
    \A q \in QueryIds :
        LET g == gens[q]
        IN  /\ g.i <= g.npulls
            /\ Len(g.results) <= g.npulls
            /\ Len(g.nlook) <= g.npulls
            /\ \A ld \in g.loads : ld[1] <= g.npulls
            /\ g.pc = "new" =>
                  /\ raster_arrays = g.store0 \cup g.foreign
                  /\ g.results = <<>> /\ g.loads = {}
            /\ g.pc = "yielded" =>
                  /\ g.npulls = Len(g.results)
                  /\ \A ld \in g.loads : ld[1] <= Len(g.results)

(* A consumer took one result of two; the second shape touches a tile that
   the store does not hold. *)
C10_Witness ==
    \E q \in QueryIds :
        LET g == gens[q]
        IN  /\ dataset.tiled /\ g.pc = "yielded" /\ g.npulls = 1
            /\ Len(g.ids) = 2 /\ Len(g.results) = 1
            /\ g.results[1].values # <<>>
            /\ \E key \in TouchedTiles(g, g.ids[2]) : key \notin raster_arrays

(* The pixel shape of a surviving shape has bounds more than one pixel wide
   and more than one pixel high: rasterize takes none of its fast paths. *)
NonDegenerate(px) == px.x0 < px.x1 /\ px.y0 < px.y1

(* No cell of the shape's weight grid is above zero. *)
ZeroCoverage(g, id) ==
    argwhere(MaskOf(g.px_shps[id], g.ext_outline, g.ext_fill, g.scale_factor)) = <<>>

(* C11: every weight in the result of a non-degenerate shape is above 0 and
   at most 1; a result never holds the weight of a pixel with no coverage.
   (A result without values holds the first row of a grid of zeros.) *)
C11_WeightsInUnitInterval ==
    \A q \in QueryIds :
        LET g == gens[q]
        IN  \A k \in DOMAIN g.results :
              LET r == g.results[k]
              IN  Survives(g, r.id) /\ NonDegenerate(g.px_shps[r.id]) =>
                    /\ ~(r.values = <<>> /\ r.weights # <<>>)
                    /\ \A j \in DOMAIN r.weights :
                          r.weights[j].num > 0 /\ r.weights[j].num <= r.weights[j].den

(* C12: when the weight grid of a surviving shape has no cell above zero, the
   result holds one sample: one value of the raster and one weight. *)
C12_FallbackOneSample ==
    \A q \in QueryIds :
        LET g == gens[q]
        IN  \A k \in DOMAIN g.results :
              LET r == g.results[k]
              IN  Survives(g, r.id) /\ ZeroCoverage(g, r.id) =>
                    Len(r.values) = 1 /\ Len(r.weights) = 1

(* rasterize was called on a filled square more than one pixel wide whose
   corners are pixel corners. *)
FilledSquare ==
    /\ rz.scale_factor # 0 /\ rz.ext_fill
    /\ NonDegenerate(rz.shp)
    /\ rz.shp.x1 - rz.shp.x0 = rz.shp.y1 - rz.shp.y0

(* C13: a pixel-aligned filled square of side n gives n * n pixels, each with
   the weight 1, for every scale_factor (the square from (2,2) to (6,6) at
   scale_factor 4: 16 pixels, 16 weights of 1.0). *)
C13_AlignedSquareAllOnes ==
    FilledSquare =>
        LET n == rz.shp.x1 - rz.shp.x0
        IN  /\ Len(rz.pts) = n * n
            /\ Len(rz.weights) = n * n
            /\ \A k \in DOMAIN rz.weights : rz.weights[k].num = rz.weights[k].den

(* rasterize was called on a shape whose bounds are one pixel wide or one
   pixel high and more than one pixel long. *)
IsLine ==
    /\ rz.scale_factor # 0
    /\ \/ rz.shp.x0 = rz.shp.x1 /\ rz.shp.y0 < rz.shp.y1
       \/ rz.shp.y0 = rz.shp.y1 /\ rz.shp.x0 < rz.shp.x1

LinePixels == (rz.shp.x0 .. rz.shp.x1) \X (rz.shp.y0 .. rz.shp.y1)

(* C14: for a line of n > 1 pixels rasterize returns n cells, each 1/n, that
   sum to 1; the query takes the n distinct pixels of the line, each with the
   weight 1/n (five pixels: five weights of 1/5). *)
C14_LineUniformWeights ==
    IsLine =>
        LET n == Cardinality(LinePixels)
        IN  /\ Len(rz.grid) * Len(rz.grid[1]) = n
            /\ \A r \in DOMAIN rz.grid : \A c \in DOMAIN rz.grid[r] :
                  rz.grid[r][c] = W(1, n)
            /\ SeqSum([k \in DOMAIN rz.weights |-> rz.weights[k].num]) = n
            /\ Len(rz.weights) = n
            /\ \A k \in DOMAIN rz.weights : rz.weights[k] = W(1, n)
            /\ Len(rz.pts) = n
            /\ Range(rz.pts) = LinePixels

(* rasterize ran on a line of five pixels, at scale_factor 4 with the fill. *)
C14_Witness ==
    /\ IsLine /\ Cardinality(LinePixels) = 5
    /\ rz.scale_factor = 4 /\ rz.ext_fill
    /\ rz.weights = [k \in 1..5 |-> W(1, 5)]

(* rasterize was called on a shape whose bounds are within one pixel. *)
IsSinglePixel ==
    rz.scale_factor # 0 /\ rz.shp.x0 = rz.shp.x1 /\ rz.shp.y0 = rz.shp.y1

(* C15: for a shape within one pixel rasterize returns the 1 x 1 grid
   [[1.0]], whatever the flags and scale_factor, and the query takes that
   one pixel with the weight 1. *)
C15_SinglePixelWeightOne ==
    IsSinglePixel =>
        /\ rz.grid = << <<W(1, 1)>> >>
        /\ rz.weights = <<W(1, 1)>>
        /\ rz.pts = << <<rz.shp.x0, rz.shp.y0>> >>

(* rasterize ran on a shape within one pixel with neither outline nor fill,
   at scale_factor 4. *)
C15_Witness ==
    /\ IsSinglePixel /\ ~rz.ext_outline /\ ~rz.ext_fill /\ rz.scale_factor = 4
    /\ rz.weights = <<W(1, 1)>>

(* C16: a file name of the index that is not {x}_{y}.tif is an error of the
   dataset's construction: no next() of a query raises for it. *)
C16_BadFilenameNotDeferred ==
    \A q \in QueryIds :
        gens[q].npulls >= 1 =>
            ~(gens[q].pc = "error" /\ gens[q].err \in {"AttributeError", "ValueError"}
              /\ \E e \in DatasetIndex : _key_from_tile_filename(e.file).err # "")

(* C17: get_values_for_pixels gives, at each place of its result, the value
   of the raster at the pixel at that place of its input, in the tiled
   dataset as in the untiled one. *)
C17_LookupPreservesOrder ==
    lk.pxs # <<>> =>
        /\ lk.err = ""
        /\ Len(lk.values) = Len(lk.pxs)
        /\ \A k \in DOMAIN lk.pxs :
              lk.values[k] = RasterValue(lk.pxs[k][1], lk.pxs[k][2])
        /\ lk.values = UntiledValues(lk.pxs).values

(* A tiled dataset with one tile resident looked up two pixels of two tiles,
   the one with the larger value first, and loaded the other tile. *)
C17_Witness ==
    /\ dataset.tiled /\ Len(lk.pxs) = 2
    /\ lk.before # {} /\ lk.loaded # {}
    /\ _get_grid_for_pixel(lk.pxs[1]) # _get_grid_for_pixel(lk.pxs[2])
    /\ lk.values[1] > lk.values[2]

(* C18: an untiled dataset holds the array of its whole raster, and nothing
   else, as long as it lives: no step of a query or of a lookup, with or
   without an index, takes it out of raster_arrays or puts a tile in. *)
C18_UntiledStoreFixed ==
    ~dataset.tiled => raster_arrays = {Whole}

(* A query of an untiled dataset yielded the values of a shape and was
   resumed past the step that drops tiles. *)
C18_Witness ==
    /\ ~dataset.tiled
    /\ \E q \in QueryIds :
          /\ gens[q].npulls >= 2
          /\ gens[q].results # <<>>
          /\ gens[q].results[1].values # <<>>

(* The results of frame g hold one for the shape id. *)
Yielded(g, id) == \E k \in DOMAIN g.results : g.results[k].id = id

(* The tiles of the shape the loop of frame g is at are in the store: those
   its eager load has taken so far while it loads, all of them while its
   values are looked up and when its result has been yielded. *)
TilesOfCurrentResident(g) ==
    (dataset.tiled /\ g.has_tiles /\ g.i >= 1
        /\ g.pc \in {"eager", "lookup", "yielded"} /\ Survives(g, g.ids[g.i])) =>
       (TouchedTiles(g, g.ids[g.i]) \ (IF g.pc = "eager" THEN g.todo ELSE {}))
          \subseteq raster_arrays

(* A step takes the tile key out of the store only when the mapping of a
   query has no shape left for it and every surviving shape of that query
   that touches the tile has its result. *)
EvictedOnlyWhenEmpty ==
    \A key \in raster_arrays \ raster_arrays' :
        \E q \in QueryIds :
            LET g == gens[q]
            IN  /\ g.has_tiles /\ g.pc = "yielded"
                /\ key \in DOMAIN g.tiles_to_ids
                /\ g.tiles_to_ids[key] = {}
                /\ \A j \in DOMAIN g.vl_ids :
                      key \in TouchedTiles(g, g.vl_ids[j]) => Yielded(g, g.vl_ids[j])

(* C19: with an index a tile is evicted only once the set of shapes left for
   it is empty, that is after every surviving shape that intersects it has
   been processed; and every tile a shape touches is resident from the
   shape's eager load until its values are looked up and its result is
   yielded. *)
C19_EvictOnlyProcessedTiles ==
    /\ [](\A q \in QueryIds : TilesOfCurrentResident(gens[q]))
    /\ [][dataset.index => EvictedOnlyWhenEmpty]_vars

(* The tile of the first shape was dropped after its result; the second
   shape, of the other tile, has been looked up with its tile resident. *)
C19_Witness ==
    \E q \in QueryIds :
        LET g == gens[q]
        IN  /\ g.has_tiles /\ g.i = 2 /\ g.pc = "yielded"
            /\ Survives(g, g.ids[1]) /\ Survives(g, g.ids[2])
            /\ TouchedTiles(g, g.ids[1]) # {}
            /\ TouchedTiles(g, g.ids[1]) \cap raster_arrays = {}
            /\ TouchedTiles(g, g.ids[2]) # {}
            /\ TouchedTiles(g, g.ids[2]) \subseteq raster_arrays
            /\ g.results[2].values # <<>>

(* The tiles read in this step for the queries: the loads their frames
   record after it and not before. *)
NewLoads ==
    UNION {{ld[2] : ld \in gens'[q].loads \ gens[q].loads} : q \in QueryIds}

(* The step is the caller's own lookup of a pixel: no generator is inside
   a next() and no frame changes but in its note of the caller's loads. *)
CallerLookupStep ==
    \A q \in QueryIds :
        /\ gens[q].pc \notin {"eager", "lookup"}
        /\ gens'[q] = [gens[q] EXCEPT !.foreign = gens'[q].foreign]

(* The step resumes a query with an index after a yield: raster.py 756-763. *)
EvictionStep ==
    \E q \in QueryIds :
        /\ gens[q].pc = "yielded" /\ gens[q].has_tiles
        /\ gens'[q].npulls = gens[q].npulls + 1

(* C20: of a tiled dataset, a tile that the store does not hold comes into
   it only by being read, at a pixel lookup or at an eager load for its key;
   a tile the store holds is not read again; a tile leaves the store only in
   the eviction step; without an index the store never loses a tile. *)
C20_TileLifecycle ==
    [][dataset.tiled =>
         /\ \A key \in raster_arrays' \ raster_arrays :
               key \in NewLoads \/ CallerLookupStep
         /\ \A key \in NewLoads : key \notin raster_arrays /\ key \in raster_arrays'
         /\ raster_arrays \ raster_arrays' # {} => EvictionStep
         /\ ~dataset.index => raster_arrays \subseteq raster_arrays']_vars

(* Without an index both tiles are resident after two results; the second
   shape's pixels were looked up in a tile that was read for the first. *)
C20_Witness ==
    /\ dataset.tiled /\ ~dataset.index
    /\ raster_arrays = TileKeys
    /\ \E q \in QueryIds :
          LET g == gens[q]
          IN  /\ g.pc = "yielded" /\ g.i = 2
              /\ g.nlook[1] > 0 /\ g.nlook[2] > 0
              /\ \E key \in TileKeys : <<1, key>> \in g.loads
              /\ \A key \in TileKeys : <<2, key>> \notin g.loads

(* C21: when a query with an index that found the tile store empty comes to
   its end, every tile the query loaded is out of the store again (unless the
   caller read it anew by a lookup of its own between two results), and the
   store of a dataset that only this query used holds no tile. *)
C21_LoadedTilesEvictedAtExhaustion ==
    [][\A q \in QueryIds :
          (/\ dataset.tiled /\ gens'[q].has_tiles /\ gens'[q].store0 = {}
           /\ gens[q].pc # "done" /\ gens'[q].pc = "done")
             => /\ \A ld \in gens'[q].loads :
                      ld[2] \notin raster_arrays' \ gens'[q].foreign
                /\ gens'[q].foreign = {} => raster_arrays' = {}]_vars

(* A query with an index that began with an empty store and alone used the
   dataset loaded both tiles, gave its results and is at its end; the store
   is empty. *)
C21_Witness ==
    \E q \in QueryIds :
        LET g == gens[q]
        IN  /\ dataset.tiled /\ g.has_tiles /\ g.store0 = {} /\ g.pc = "done"
            /\ g.foreign = {}
            /\ {ld[2] : ld \in g.loads} = TileKeys
            /\ Len(g.results) = 2
            /\ raster_arrays = {}

(* C22: a query with an index loads each tile at most once: no tile has two
   loads in the record of the query, whether by the eager load or by a miss
   of the pixel lookup, and so no evicted tile is loaded again. *)
C22_TileLoadedAtMostOnce ==
    \A q \in QueryIds :
        LET g == gens[q]
        IN  dataset.tiled /\ g.has_tiles =>
              \A ld1, ld2 \in g.loads : ld1[2] = ld2[2] => ld1 = ld2

(* A query with an index came to its end: one of its two shapes touched both
   tiles, the other only one of them; each tile was loaded once and the
   tile of the one shape alone is out of the store. *)
C22_Witness ==
    \E q \in QueryIds :
        LET g == gens[q]
        IN  /\ dataset.tiled /\ g.has_tiles /\ g.pc = "done" /\ Len(g.ids) = 2
            /\ \E a, b \in 1..2 :
                  /\ a # b
                  /\ TouchedTiles(g, g.ids[a]) = TileKeys
                  /\ Cardinality(TouchedTiles(g, g.ids[b])) = 1
            /\ Cardinality(g.loads) = 2
            /\ raster_arrays = {}

(* The frame g ended with the error of a tile that could not be read. *)
LoadFailed(g) == g.pc = "error" /\ g.err \in {"IOError", "AttributeError"}

(* The pixels whose values the k-th result of frame g holds. *)
ResultPixels(g, k) ==
    LET shp == g.px_shps[g.results[k].id]
    IN  Range(PtsOf(MaskOf(shp, g.ext_outline, g.ext_fill, g.scale_factor), shp))

(* No tile whose file cannot be read is in the store or in the record of a
   query's loads, and no result holds values of pixels of such a tile. *)
FailedTileAbsent ==
    /\ raster_arrays \cap dataset.missing = {}
    /\ \A q \in QueryIds :
          LET g == gens[q]
          IN  /\ \A ld \in g.loads : ld[2] \notin dataset.missing
              /\ \A k \in DOMAIN g.results :
                    g.results[k].values # <<>> =>
                       /\ \A px \in ResultPixels(g, k) :
                             _get_grid_for_pixel(px) \notin dataset.missing
                       /\ g.has_tiles =>
                             TouchedTiles(g, g.results[k].id) \cap dataset.missing = {}

(* The step in which a query's load fails takes no tile out of the store,
   and a query that raised does nothing more. *)
FailureKeepsStore ==
    \A q \in QueryIds :
        /\ (LoadFailed(gens'[q]) /\ ~LoadFailed(gens[q])) =>
               raster_arrays \subseteq raster_arrays'
        /\ gens[q].pc = "error" => gens'[q] = gens[q]

(* C23: a tile load that fails, at a miss of the pixel lookup or at the
   eager load, raises to the caller of the next() under way, is not tried
   again, and leaves the tile absent: the store gets no entry for the key
   and keeps the tiles it held. *)
C23_FailedLoadLeavesTileAbsent ==
    /\ []FailedTileAbsent
    /\ [][FailureKeepsStore]_vars

(* The eager load of a query with an index failed on the second shape's
   tile while the store holds a tile read before. *)
C23_Witness ==
    \E q \in QueryIds :
        LET g == gens[q]
        IN  /\ LoadFailed(g) /\ g.has_tiles /\ g.i = 2
            /\ TouchedTiles(g, g.ids[2]) \cap dataset.missing # {}
            /\ raster_arrays # {}
            /\ Len(g.results) = 1 /\ g.results[1].values # <<>>

(* Frame g counts the tile key as referenced by a shape it has not loaded
   the tile for yet, has loaded the tile itself, and the store does not
   hold it: another iteration took it out. *)
ReferencedTileGone(g, key) ==
    /\ g.has_tiles /\ Running(g)
    /\ key \in DOMAIN g.tiles_to_ids /\ g.tiles_to_ids[key] # {}
    /\ \E ld \in g.loads : ld[2] = key
    /\ key \notin raster_arrays

(* The query of frame g is damaged: a tile it still counts as referenced
   was evicted under it, or its own eviction found a tile gone. *)
Damaged(g) ==
    \/ \E key \in TileKeys : ReferencedTileGone(g, key)
    \/ g.pc = "error" /\ g.err = "KeyError"

(* C24: the tile store is not safe for two queries of one dataset that are
   iterated in turns.  A query that alone iterates on the dataset is never
   damaged; with a second query with an index iterated in between, a state
   is reached where one has evicted a tile the other still counts as
   referenced by a pending shape, or where an eviction raises for a tile
   that is no longer resident. *)
C24_DamageOnlyWhenInterleaved ==
    \A q \in InterleavedIds :
        Damaged(gens[q]) =>
            \E r \in InterleavedIds \ {q} : gens[r].has_tiles /\ gens[r].npulls >= 2

(* One iteration has evicted the tile that the other, between two of its
   results, still counts as referenced by its second shape. *)
C24_Witness ==
    \E q \in InterleavedIds : \E r \in InterleavedIds \ {q} :
        /\ gens[q].pc = "yielded" /\ gens[q].i = 1 /\ Len(gens[q].ids) = 2
        /\ \E key \in TileKeys :
              /\ ReferencedTileGone(gens[q], key)
              /\ key \in TouchedTiles(gens[q], gens[q].ids[2])
              /\ key \in TouchedTiles(gens[r], gens[r].ids[1])
        /\ gens[r].pc = "done"

(* The eviction of one iteration raised KeyError for a tile that the other
   iteration had evicted before. *)
C24_KeyErrorReached ==
    \E q \in InterleavedIds : \E r \in InterleavedIds \ {q} :
        /\ gens[q].pc = "error" /\ gens[q].err = "KeyError"
        /\ gens[r].pc = "done"

(* C25: the grid key of a pixel of a tiled dataset is made of multiples of
   the grid size, with x_grid <= x < x_grid + grid_size and the same for y,
   and the value is the one at the offset (x - x_grid, y - y_grid) of that
   tile; pixel (118, 243) with grid size 100 has key (100, 200) and offset
   (18, 43). *)
C25_GridKeyAndOffset ==
    gp # NoGrid =>
        /\ \A c \in 1..2 :
              /\ gp.key[c] % gp.gs = 0
              /\ gp.key[c] <= gp.px[c] /\ gp.px[c] < gp.key[c] + gp.gs
              /\ gp.off[c] = gp.px[c] - gp.key[c]
              /\ gp.off[c] \in 0..(gp.gs - 1)
        /\ (gp.gs = grid_size /\ gp.px \in Pixels) =>
              /\ gp.err = ""
              /\ gp.key \in TileKeys /\ gp.key \in raster_arrays
              /\ gp.value = RasterValue(gp.px[1], gp.px[2])
        /\ (gp.gs = 100 /\ gp.px = <<118, 243>>) =>
              gp.key = <<100, 200>> /\ gp.off = <<18, 43>>

(* The key of pixel (118, 243) was computed with grid size 100. *)
C25_Witness ==
    gp.gs = 100 /\ gp.px = <<118, 243>> /\ gp.key = <<100, 200>>

(* A pixel that is not the first of its tile in the model's raster was read
   at its offset. *)
C25_StoredReached ==
    /\ gp.gs = grid_size /\ gp.px \in Pixels /\ gp.err = ""
    /\ gp.off[1] > 0 /\ gp.key[1] > 0 /\ gp.key \in raster_arrays

(* n is the floor of a / b: the integer with n <= a / b < n + 1. *)
IsFloorOf(n, a, b) ==
    IF b > 0 THEN n * b <= a /\ a < (n + 1) * b
    ELSE n * b >= a /\ a > (n + 1) * b

(* C26: _to_pixels gives floor((lon - min_lon) / lon_px_size) and
   floor((lat - max_lat) / lat_px_size), also for the points west or north
   of the raster's origin, where the quotient is negative. *)
C26_ToPixelsFloors ==
    tp.called =>
        /\ IsFloorOf(tp.px[1], tp.lon - min_lon, lon_px_size)
        /\ IsFloorOf(tp.px[2], tp.lat - max_lat, lat_px_size)

(* A point north-west of the origin, half a pixel off a pixel's edge in
   both coordinates, was converted. *)
C26_Witness ==
    /\ tp.called /\ tp.lon < min_lon /\ tp.lat > max_lat
    /\ (tp.lon - min_lon) % lon_px_size # 0
    /\ (tp.lat - max_lat) % (-lat_px_size) # 0
    /\ tp.px[1] < 0 /\ tp.px[2] < 0
====
